---- MODULE Spec2Model ----
(***************************************************************************)
(* Model of c-list (src/src/c-list.h): an intrusive circular doubly linked *)
(* list.  Memory is a map from node addresses to CList structs; every API  *)
(* function is an operator performing the pointer writes of the C code in  *)
(* program order, and every action is one call made by a caller that       *)
(* keeps the documented preconditions.                                     *)
(***************************************************************************)
EXTENDS Integers, Sequences, FiniteSets, TLC

\* Number of entry objects (struct CList embedded in caller records).
NumEntries == 3

\* Addresses.  NULL is the null pointer, list1/list2 are two list heads,
\* the entries follow.
NULL == 0

\* Records that embed a CList live at addresses 1..MaxAddr, the member at an
\* offset of 0..MaxOff bytes.
MaxAddr == 8
MaxOff == 8
list1 == 1
list2 == 2
Heads == {list1, list2}
Entries == (list2 + 1)..(list2 + NumEntries)
Nodes == Heads \cup Entries

VARIABLES
    mem,    \* mem[x] is the struct CList at address x: [next, prev]
    owner,  \* caller bookkeeping: the head an entry was linked to, or NULL
    call,   \* the most recent API call [op, where, what]
    pre,    \* mem as it was before the most recent API call
    undo,   \* when the latest call unlinked the entry that the call before
            \* it linked: {mem before that link}; otherwise {}
    order,  \* test_iterators: the entries in the order they were linked
    pc,     \* test_iterators: position in the program
    iter,   \* test_iterators: CList *iter
    safe,   \* test_iterators: CList *safe
    visits, \* test_iterators: the values of iter the loop body has seen
    runs,   \* the visits of the loops over the list that were completed before
    ent     \* the most recent c_list_entry computation: the record it is
            \* about, the pointer and offsetof passed, and the result

vars == <<mem, owner, call, pre, undo, order, pc, iter, safe, visits, runs, ent>>
apiVars == <<mem, owner, call, pre, undo>>
loopVars == <<order, pc, iter, safe, visits, runs>>

\* struct CList
CList == [next : Nodes, prev : Nodes]

\* An initializer that zeroes the struct instead of pointing it at itself.
C_LIST_INIT_null(var) == [next |-> NULL, prev |-> NULL]

\* #define C_LIST_INIT(_var) { .next = &(_var), .prev = &(_var) }
C_LIST_INIT(var) == [next |-> var, prev |-> var]

\* return what && what->next != what;
c_list_is_linked(m, what) == what # NULL /\ m[what].next # what

\* return !list || !c_list_is_linked(list);
c_list_is_empty(m, list) == list = NULL \/ ~c_list_is_linked(m, list)

\* c_list_link_before without its last store, prev->next = what.
c_list_link_before_no_prev_next(m, where, what) ==
    LET prev == m[where].prev
        next == where
        m1 == [m  EXCEPT ![next].prev = what]
        m2 == [m1 EXCEPT ![what].next = next]
        m3 == [m2 EXCEPT ![what].prev = prev]
    IN  m3

\* c_list_link_before with the anchor bound to prev instead of next.
c_list_link_before_mirrored(m, where, what) ==
    LET prev == where
        next == m[where].next
        m1 == [m  EXCEPT ![next].prev = what]
        m2 == [m1 EXCEPT ![what].next = next]
        m3 == [m2 EXCEPT ![what].prev = prev]
        m4 == [m3 EXCEPT ![prev].next = what]
    IN  m4

\* The four stores of c_list_link_before, in program order.
c_list_link_before(m, where, what) ==
    LET prev == m[where].prev
        next == where
        m1 == [m  EXCEPT ![next].prev = what]
        m2 == [m1 EXCEPT ![what].next = next]
        m3 == [m2 EXCEPT ![what].prev = prev]
        m4 == [m3 EXCEPT ![prev].next = what]
    IN  m4

\* c_list_link_tail expanding to an insertion behind the head.
c_list_link_tail_front(m, list, what) == c_list_link_before_mirrored(m, list, what)

\* #define c_list_link_tail(_list, _what) c_list_link_before((_list), (_what))
c_list_link_tail(m, list, what) == c_list_link_before(m, list, what)

\* The four stores of c_list_link_after, in program order.  The body in the
\* source binds prev = where->prev and next = where, as c_list_link_before.
c_list_link_after(m, where, what) ==
    LET prev == m[where].prev
        next == where
        m1 == [m  EXCEPT ![next].prev = what]
        m2 == [m1 EXCEPT ![what].next = next]
        m3 == [m2 EXCEPT ![what].prev = prev]
        m4 == [m3 EXCEPT ![prev].next = what]
    IN  m4

\* #define c_list_link_front(_list, _what) c_list_link_after((_list), (_what))
c_list_link_front(m, list, what) == c_list_link_after(m, list, what)

\* c_list_unlink without its first store, next->prev = prev.
c_list_unlink_no_next_prev(m, what) ==
    LET prev == m[what].prev
        next == m[what].next
    IN  [m EXCEPT ![prev].next = next]

\* c_list_unlink without its second store, prev->next = next.
c_list_unlink_no_prev_next(m, what) ==
    LET prev == m[what].prev
        next == m[what].next
    IN  [m EXCEPT ![next].prev = prev]

\* c_list_unlink that also resets what, as c_list_unlink_init does.
c_list_unlink_resetting(m, what) ==
    LET prev == m[what].prev
        next == m[what].next
        m1 == [m  EXCEPT ![next].prev = prev]
        m2 == [m1 EXCEPT ![prev].next = next]
    IN  [m2 EXCEPT ![what] = C_LIST_INIT(what)]

\* c_list_unlink that also poisons the pointers of what.
c_list_unlink_poisoning(m, what) ==
    LET prev == m[what].prev
        next == m[what].next
        m1 == [m  EXCEPT ![next].prev = prev]
        m2 == [m1 EXCEPT ![prev].next = next]
    IN  [m2 EXCEPT ![what] = [next |-> NULL, prev |-> NULL]]

\* The two stores of c_list_unlink, in program order.
c_list_unlink(m, what) ==
    LET prev == m[what].prev
        next == m[what].next
        m1 == [m  EXCEPT ![next].prev = prev]
        m2 == [m1 EXCEPT ![prev].next = next]
    IN  m2

\* c_list_unlink_init without the re-initialization of what.
c_list_unlink_init_no_init(m, what) ==
    IF c_list_is_linked(m, what) THEN c_list_unlink(m, what) ELSE m

\* c_list_unlink_init with its two statements in the opposite order.
c_list_unlink_init_init_first(m, what) ==
    IF c_list_is_linked(m, what)
    THEN c_list_unlink([m EXCEPT ![what] = C_LIST_INIT(what)], what)
    ELSE m

\* if (c_list_is_linked(what)) { c_list_unlink(what); *what = C_LIST_INIT }
c_list_unlink_init(m, what) ==
    IF c_list_is_linked(m, what)
    THEN [c_list_unlink(m, what) EXCEPT ![what] = C_LIST_INIT(what)]
    ELSE m

c_list_loop_first(m, list) == m[list].next
c_list_loop_last(m, list) == m[list].prev
c_list_loop_next(m, what) == m[what].next
\* c_list_loop_prev returning the next element.
c_list_loop_prev_forward(m, what) == m[what].next

c_list_loop_prev(m, what) == m[what].prev

\* c_list_first that only checks the pointer, not the emptiness.
c_list_first_unchecked(m, list) == IF list = NULL THEN NULL ELSE m[list].next

\* return c_list_is_empty(list) ? NULL : list->next;
c_list_first(m, list) == IF c_list_is_empty(m, list) THEN NULL ELSE m[list].next

\* return c_list_is_empty(list) ? NULL : list->prev;
c_list_last(m, list) == IF c_list_is_empty(m, list) THEN NULL ELSE m[list].prev

\* c_list_for_each(_iter, _list): the sequence of values _iter takes in the
\* loop body.  The walk is cut off after more iterations than there are
\* nodes, which a terminating walk over distinct nodes never needs.
RECURSIVE for_each_from(_, _, _, _)
for_each_from(m, list, cur, acc) ==
    IF cur = list \/ Len(acc) > Cardinality(Nodes)
    THEN acc
    ELSE for_each_from(m, list, c_list_loop_next(m, cur), Append(acc, cur))

c_list_for_each(m, list) == for_each_from(m, list, c_list_loop_first(m, list), <<>>)

\* The walk from c_list_loop_last(list) via c_list_loop_prev until the head
\* is reached, cut off like the forward walk.
RECURSIVE backward_from(_, _, _, _)
backward_from(m, list, cur, acc) ==
    IF cur = list \/ Len(acc) > Cardinality(Nodes)
    THEN acc
    ELSE backward_from(m, list, c_list_loop_prev(m, cur), Append(acc, cur))

backward(m, list) == backward_from(m, list, c_list_loop_last(m, list), <<>>)

\* The nodes reachable from x by following next, x included.
RECURSIVE ReachFrom(_, _, _)
ReachFrom(m, x, seen) ==
    IF x \in seen THEN seen ELSE ReachFrom(m, m[x].next, seen \cup {x})

Ring(m, head) == ReachFrom(m, head, {})

\* The ring an anchor belongs to, by the caller's bookkeeping.
RingOf(where) == IF where \in Heads THEN where ELSE owner[where]

\* c_list_for_each_safe, first clause of the for statement:
\* _iter = c_list_loop_first(_list), _safe = c_list_loop_next(_iter)
for_each_safe_first(m, list) ==
    LET i == c_list_loop_first(m, list)
    IN  [iter |-> i, safe |-> c_list_loop_next(m, i)]

\* c_list_entry without the ?: that keeps NULL.
c_list_entry_no_null(what, off) == what - off

\* ((_t *)(((void *)(_what) ?: (void *)NULL + offsetof(_t, _m)) - offsetof(_t, _m)))
\* with off for offsetof(_t, _m)
c_list_entry(what, off) == (IF what # NULL THEN what ELSE NULL + off) - off

\* c_list_entry(c_list_first(_list), _t, _m)
c_list_first_entry(m, list, off) == c_list_entry(c_list_first(m, list), off)

\* c_list_entry(c_list_last(_list), _t, _m)
c_list_last_entry(m, list, off) == c_list_entry(c_list_last(m, list), off)

\* The first clause of c_list_for_each starting at the last element.
for_each_first_last(m, list) == c_list_loop_last(m, list)

\* c_list_for_each, first clause: _iter = c_list_loop_first(_list)
for_each_first(m, list) == c_list_loop_first(m, list)

\* c_list_for_each, third clause: _iter = c_list_loop_next(_iter)
for_each_next(m, i) == c_list_loop_next(m, i)

\* The third clause advancing from _iter, as c_list_for_each does.
for_each_safe_next_from_iter(m, i, s) ==
    [iter |-> c_list_loop_next(m, i), safe |-> s]

\* c_list_for_each_safe, third clause of the for statement:
\* _iter = _safe, _safe = c_list_loop_next(_safe)
for_each_safe_next(m, i, s) ==
    [iter |-> s, safe |-> c_list_loop_next(m, s)]

NoCall == [op |-> "none", where |-> NULL, what |-> NULL]

NoEntry == [op |-> "none", rec |-> NULL, what |-> NULL, off |-> 0, res |-> NULL]

LinkOps == {"c_list_link_before", "c_list_link_after",
            "c_list_link_tail", "c_list_link_front"}
UnlinkOps == {"c_list_unlink", "c_list_unlink_init"}

\* CList list = C_LIST_INIT(list); node.link = C_LIST_INIT(node.link);
\* CList *iter, *safe are not set before the loop sets them.
Init ==
    /\ mem = [x \in Nodes |-> C_LIST_INIT(x)]
    /\ owner = [e \in Entries |-> NULL]
    /\ call = NoCall
    /\ pre = mem
    /\ undo = {}
    /\ order = <<>>
    /\ pc = "idle"
    /\ iter = NULL
    /\ safe = NULL
    /\ visits = <<>>
    /\ runs = <<>>
    /\ ent = NoEntry

\* Anchors a caller may pass: a head, or an entry that is linked.
IsMember(where) == where \in Heads \/ (where \in Entries /\ owner[where] # NULL)

\* Entries a caller may link: not a member of any ring.
IsFree(what) == what \in Entries /\ owner[what] = NULL

\* Entries a caller may unlink: a ring member, or an initialized entry.
MayUnlink(what) ==
    what \in Entries /\ (owner[what] # NULL \/ mem[what] = C_LIST_INIT(what))

\* Bookkeeping shared by the link calls.
Linked(op, where, what) ==
    /\ owner' = [owner EXCEPT ![what] = RingOf(where)]
    /\ call' = [op |-> op, where |-> where, what |-> what]
    /\ pre' = mem
    /\ undo' = {}

\* Bookkeeping shared by the unlink calls.
Unlinked(op, what) ==
    /\ owner' = [owner EXCEPT ![what] = NULL]
    /\ call' = [op |-> op, where |-> NULL, what |-> what]
    /\ pre' = mem
    /\ undo' = IF call.op \in LinkOps /\ call.what = what THEN {pre} ELSE {}

\* c_list_link_before(&where, &what);
LinkBefore(where, what) ==
    /\ IsMember(where) /\ IsFree(what)
    /\ mem' = c_list_link_before(mem, where, what)
    /\ Linked("c_list_link_before", where, what)

\* c_list_link_after(&where, &what);
LinkAfter(where, what) ==
    /\ IsMember(where) /\ IsFree(what)
    /\ mem' = c_list_link_after(mem, where, what)
    /\ Linked("c_list_link_after", where, what)

\* c_list_link_tail(&list, &what);
LinkTail(list, what) ==
    /\ list \in Heads /\ IsFree(what)
    /\ mem' = c_list_link_tail(mem, list, what)
    /\ Linked("c_list_link_tail", list, what)

\* c_list_link_front(&list, &what);
LinkFront(list, what) ==
    /\ list \in Heads /\ IsFree(what)
    /\ mem' = c_list_link_front(mem, list, what)
    /\ Linked("c_list_link_front", list, what)

\* c_list_unlink(&what);
Unlink(what) ==
    /\ MayUnlink(what)
    /\ mem' = c_list_unlink(mem, what)
    /\ Unlinked("c_list_unlink", what)

\* c_list_unlink_init(&what);
UnlinkInit(what) ==
    /\ MayUnlink(what)
    /\ mem' = c_list_unlink_init(mem, what)
    /\ Unlinked("c_list_unlink_init", what)

\* A caller working on the ring of list1 with the whole link/unlink API.
CallLinkBefore ==
    \E where \in {list1} \cup Entries, what \in Entries :
        LinkBefore(where, what) /\ UNCHANGED <<loopVars, ent>>
CallLinkAfter ==
    \E where \in {list1} \cup Entries, what \in Entries :
        LinkAfter(where, what) /\ UNCHANGED <<loopVars, ent>>
CallLinkTail ==
    \E what \in Entries : LinkTail(list1, what) /\ UNCHANGED <<loopVars, ent>>
CallLinkFront ==
    \E what \in Entries : LinkFront(list1, what) /\ UNCHANGED <<loopVars, ent>>
CallUnlink ==
    \E what \in Entries : Unlink(what) /\ UNCHANGED <<loopVars, ent>>
CallUnlinkInit ==
    \E what \in Entries : UnlinkInit(what) /\ UNCHANGED <<loopVars, ent>>

Next ==
    \/ CallLinkBefore
    \/ CallLinkAfter
    \/ CallLinkTail
    \/ CallLinkFront
    \/ CallUnlink
    \/ CallUnlinkInit

Spec == Init /\ [][Next]_vars

\* test_iterators(), for any number of entries and both unlink calls in the
\* body of the removal-safe loop.

\* c_list_link_tail(&list, &a); c_list_link_tail(&list, &b); ...
IterLinkTail ==
    /\ pc = "idle"
    /\ \E what \in Entries : LinkTail(list1, what) /\ order' = Append(order, what)
    /\ UNCHANGED <<pc, iter, safe, visits, runs, ent>>

\* c_list_for_each_safe(iter, safe, &list): first clause
ForEachSafeFirst ==
    /\ pc = "idle"
    /\ iter' = for_each_safe_first(mem, list1).iter
    /\ safe' = for_each_safe_first(mem, list1).safe
    /\ pc' = "test"
    /\ UNCHANGED <<apiVars, order, visits, runs, ent>>

\* c_list_for_each_safe(iter, safe, &list): condition _iter != (_list)
ForEachSafeTest ==
    /\ pc = "test"
    /\ pc' = IF iter # list1 THEN "body" ELSE "done"
    /\ UNCHANGED <<apiVars, order, iter, safe, visits, runs, ent>>

\* loop body: c_list_unlink(iter); ++i;   (or c_list_unlink_init(iter))
ForEachSafeBody ==
    /\ pc = "body"
    /\ Len(visits) <= Cardinality(Nodes)
    /\ Unlink(iter) \/ UnlinkInit(iter)
    /\ visits' = Append(visits, iter)
    /\ pc' = "incr"
    /\ UNCHANGED <<order, iter, safe, runs, ent>>

\* c_list_for_each_safe(iter, safe, &list): third clause
ForEachSafeNext ==
    /\ pc = "incr"
    /\ iter' = for_each_safe_next(mem, iter, safe).iter
    /\ safe' = for_each_safe_next(mem, iter, safe).safe
    /\ pc' = "test"
    /\ UNCHANGED <<apiVars, order, visits, runs, ent>>

Loop == ForEachSafeTest \/ ForEachSafeBody \/ ForEachSafeNext

NextIter ==
    \/ IterLinkTail
    \/ ForEachSafeFirst
    \/ ForEachSafeTest
    \/ ForEachSafeBody
    \/ ForEachSafeNext

SpecIter == Init /\ [][NextIter]_vars

\* A sequential program that has entered the loop keeps executing it.
FairSpecIter == SpecIter /\ WF_vars(Loop)

\* test_api() / test_iterators(): a caller that links and unlinks on the
\* ring of list1 and then runs c_list_for_each over it twice.  The calls are
\* those of Spec; their history is not recorded here.
EachLinkBefore ==
    /\ pc = "idle"
    /\ \E where \in {list1} \cup Entries, what \in Entries :
        /\ IsMember(where) /\ IsFree(what)
        /\ mem' = c_list_link_before(mem, where, what)
        /\ owner' = [owner EXCEPT ![what] = RingOf(where)]
    /\ UNCHANGED <<call, pre, undo, loopVars, ent>>

EachLinkAfter ==
    /\ pc = "idle"
    /\ \E where \in {list1} \cup Entries, what \in Entries :
        /\ IsMember(where) /\ IsFree(what)
        /\ mem' = c_list_link_after(mem, where, what)
        /\ owner' = [owner EXCEPT ![what] = RingOf(where)]
    /\ UNCHANGED <<call, pre, undo, loopVars, ent>>

EachUnlink ==
    /\ pc = "idle"
    /\ \E what \in Entries :
        /\ MayUnlink(what)
        /\ mem' = c_list_unlink(mem, what)
        /\ owner' = [owner EXCEPT ![what] = NULL]
    /\ UNCHANGED <<call, pre, undo, loopVars, ent>>

EachUnlinkInit ==
    /\ pc = "idle"
    /\ \E what \in Entries :
        /\ MayUnlink(what)
        /\ mem' = c_list_unlink_init(mem, what)
        /\ owner' = [owner EXCEPT ![what] = NULL]
    /\ UNCHANGED <<call, pre, undo, loopVars, ent>>

\* c_list_for_each(iter, &list): first clause, for the first loop and for
\* the second one that follows it directly
ForEachFirst ==
    /\ pc = "idle" \/ (pc = "each_done" /\ runs = <<>>)
    /\ iter' = for_each_first(mem, list1)
    /\ runs' = IF pc = "each_done" THEN Append(runs, visits) ELSE runs
    /\ visits' = <<>>
    /\ pc' = "each_test"
    /\ UNCHANGED <<apiVars, order, safe, ent>>

\* c_list_for_each(iter, &list): condition _iter != (_list)
ForEachTest ==
    /\ pc = "each_test"
    /\ pc' = IF iter # list1 THEN "each_body" ELSE "each_done"
    /\ UNCHANGED <<apiVars, order, iter, safe, visits, runs, ent>>

\* loop body: assert(iter == ...); ++i;
ForEachBody ==
    /\ pc = "each_body"
    /\ Len(visits) <= Cardinality(Nodes)
    /\ visits' = Append(visits, iter)
    /\ pc' = "each_incr"
    /\ UNCHANGED <<apiVars, order, iter, safe, runs, ent>>

\* c_list_for_each(iter, &list): third clause
ForEachNext ==
    /\ pc = "each_incr"
    /\ iter' = for_each_next(mem, iter)
    /\ pc' = "each_test"
    /\ UNCHANGED <<apiVars, order, safe, visits, runs, ent>>

EachLoop == ForEachTest \/ ForEachBody \/ ForEachNext

NextEach ==
    \/ EachLinkBefore
    \/ EachLinkAfter
    \/ EachUnlink
    \/ EachUnlinkInit
    \/ ForEachFirst
    \/ ForEachTest
    \/ ForEachBody
    \/ ForEachNext

SpecEach == Init /\ [][NextEach]_vars

\* A sequential program that has entered the loop keeps executing it.
FairSpecEach == SpecEach /\ WF_vars(EachLoop)

\* test_api(): the container-of computations, on a record at address r with
\* its CList member at offset o, on NULL, and on a list that is empty or NULL.
Entered(op, r, what, off, res) ==
    /\ ent' = [op |-> op, rec |-> r, what |-> what, off |-> off, res |-> res]
    /\ UNCHANGED <<apiVars, loopVars>>

\* c_list_entry(&node.link, Node, link)
EntryOfMember ==
    \E r \in 1..MaxAddr, o \in 0..MaxOff :
        Entered("c_list_entry", r, r + o, o, c_list_entry(r + o, o))

\* c_list_entry(NULL, Node, link)
EntryOfNull ==
    \E o \in 0..MaxOff :
        Entered("c_list_entry", NULL, NULL, o, c_list_entry(NULL, o))

\* c_list_first_entry(&list, Node, link)
FirstEntry ==
    \E list \in {NULL, list1}, o \in 0..MaxOff :
        Entered("c_list_first_entry", NULL, list, o, c_list_first_entry(mem, list, o))

\* c_list_last_entry(&list, Node, link)
LastEntry ==
    \E list \in {NULL, list1}, o \in 0..MaxOff :
        Entered("c_list_last_entry", NULL, list, o, c_list_last_entry(mem, list, o))

NextEntry ==
    \/ EntryOfMember
    \/ EntryOfNull
    \/ FirstEntry
    \/ LastEntry

SpecEntry == Init /\ [][NextEntry]_vars

\* A caller working on the two rings of list1 and list2 with
\* c_list_link_before, c_list_link_after and c_list_unlink, who may at some
\* point break the precondition of the link calls by linking an entry that
\* is still a member of the other ring.  Nothing is modelled after that call.
Called(op, where, what) ==
    /\ call' = [op |-> op, where |-> where, what |-> what]
    /\ UNCHANGED <<pre, undo, order, iter, safe, visits, runs, ent>>

TwoLinkBefore ==
    /\ pc = "idle"
    /\ \E where \in Nodes, what \in Entries :
        /\ IsMember(where) /\ IsFree(what)
        /\ mem' = c_list_link_before(mem, where, what)
        /\ owner' = [owner EXCEPT ![what] = RingOf(where)]
        /\ Called("c_list_link_before", where, what)
    /\ pc' = pc

TwoLinkAfter ==
    /\ pc = "idle"
    /\ \E where \in Nodes, what \in Entries :
        /\ IsMember(where) /\ IsFree(what)
        /\ mem' = c_list_link_after(mem, where, what)
        /\ owner' = [owner EXCEPT ![what] = RingOf(where)]
        /\ Called("c_list_link_after", where, what)
    /\ pc' = pc

TwoUnlink ==
    /\ pc = "idle"
    /\ \E what \in Entries :
        /\ MayUnlink(what)
        /\ mem' = c_list_unlink(mem, what)
        /\ owner' = [owner EXCEPT ![what] = NULL]
        /\ Called("c_list_unlink", NULL, what)
    /\ pc' = pc

\* what is a member of one ring and where a member of the other one.
IsDoubleLink(where, what) ==
    /\ what \in Entries /\ owner[what] # NULL
    /\ IsMember(where) /\ RingOf(where) # owner[what]

DoubleLinkBefore ==
    /\ pc = "idle"
    /\ \E where \in Nodes, what \in Entries :
        /\ IsDoubleLink(where, what)
        /\ mem' = c_list_link_before(mem, where, what)
        /\ Called("c_list_link_before", where, what)
    /\ pc' = "corrupt"
    /\ UNCHANGED owner

DoubleLinkAfter ==
    /\ pc = "idle"
    /\ \E where \in Nodes, what \in Entries :
        /\ IsDoubleLink(where, what)
        /\ mem' = c_list_link_after(mem, where, what)
        /\ Called("c_list_link_after", where, what)
    /\ pc' = "corrupt"
    /\ UNCHANGED owner

NextTwo ==
    \/ TwoLinkBefore
    \/ TwoLinkAfter
    \/ TwoUnlink
    \/ DoubleLinkBefore
    \/ DoubleLinkAfter

SpecTwo == Init /\ [][NextTwo]_vars

----------------------------------------------------------------------------
\* Vocabulary of the properties.

\* y.next.prev == y and y.prev.next == y for every node reachable from head.
RingConsistent(m, head) ==
    \A y \in Ring(m, head) :
        /\ m[m[y].next].prev = y
        /\ m[m[y].prev].next = y

\* The elements of a sequence.
Elems(seq) == {seq[i] : i \in 1..Len(seq)}

\* A sequence with every occurrence of x removed.
Without(seq, x) == SelectSeq(seq, LAMBDA e : e # x)

\* The sequence with x inserted so that it becomes element number i.
InsertAt(seq, i, x) == SubSeq(seq, 1, i - 1) \o <<x>> \o SubSeq(seq, i, Len(seq))

\* A sequence in the opposite order.
Reverse(seq) == [i \in 1..Len(seq) |-> seq[Len(seq) + 1 - i]]

\* The entries the caller has linked to head and not unlinked since.
Owned(head) == {e \in Entries : owner[e] = head}

----------------------------------------------------------------------------
\* C1: ring consistency.  After every call of a caller that keeps the
\* preconditions, every node y reachable from the head via next (the head
\* included) satisfies y.next.prev == y and y.prev.next == y.
C1_RingConsistency == RingConsistent(mem, list1)

\* C1 witness: an unlink has just acted on a ring that still holds two
\* entries, after link calls built a ring of three.
C1_Witness ==
    /\ call.op = "c_list_unlink"
    /\ Cardinality(Owned(list1)) = NumEntries - 1
    /\ Ring(mem, list1) = {list1} \cup Owned(list1)

\* C2 (as claimed): c_list_link_after(head, n) / c_list_link_front(head, n)
\* links n as the new front element: afterwards c_list_first(head) == n and
\* forward iteration yields n followed by the former elements.
C2_LinkAfterHeadIsFront ==
    (call.op \in {"c_list_link_after", "c_list_link_front"} /\ call.where = list1)
    => /\ c_list_first(mem, list1) = call.what
       /\ c_list_for_each(mem, list1) = <<call.what>> \o c_list_for_each(pre, list1)

\* C3 (as claimed): c_list_link_after(where, what) links what directly after
\* where: where.next == what, what.prev == where, what.next is the former
\* where.next, and the order of the other ring members is unchanged.
C3_LinkAfterIsAfter ==
    call.op = "c_list_link_after"
    => /\ mem[call.where].next = call.what
       /\ mem[call.what].prev = call.where
       /\ mem[call.what].next = pre[call.where].next
       /\ Without(c_list_for_each(mem, list1), call.what) = c_list_for_each(pre, list1)

\* C4: c_list_link_before(where, what) links what directly in front of
\* where, for a head or an entry as anchor: where.prev == what,
\* what.next == where, what.prev is the former where.prev and that node's
\* next is what; what is now a ring member and the order of the other ring
\* members is unchanged.
C4_LinkBeforeIsBefore ==
    call.op = "c_list_link_before"
    => /\ mem[call.where].prev = call.what
       /\ mem[call.what].next = call.where
       /\ mem[call.what].prev = pre[call.where].prev
       /\ mem[pre[call.where].prev].next = call.what
       /\ call.what \in Elems(c_list_for_each(mem, list1))
       /\ Without(c_list_for_each(mem, list1), call.what) = c_list_for_each(pre, list1)

\* C4 witness: an entry was linked in front of the second of two entries.
C4_Witness ==
    /\ call.op = "c_list_link_before"
    /\ Len(c_list_for_each(pre, list1)) = 2
    /\ call.where = c_list_for_each(pre, list1)[2]
    /\ c_list_for_each(mem, list1) = InsertAt(c_list_for_each(pre, list1), 2, call.what)

\* C5: tail insertion preserves insertion order.  While entries are linked
\* one after another with c_list_link_tail onto the initially empty head,
\* after each step c_list_first is the entry linked first, c_list_last the
\* entry linked last, and c_list_for_each visits the entries in link order.
C5_TailKeepsLinkOrder ==
    pc = "idle"
    => /\ c_list_for_each(mem, list1) = order
       /\ order # <<>> => /\ c_list_first(mem, list1) = order[1]
                          /\ c_list_last(mem, list1) = order[Len(order)]

\* C5 witness: every entry has been linked with c_list_link_tail.
C5_Witness ==
    /\ pc = "idle"
    /\ call.op = "c_list_link_tail"
    /\ Len(order) = NumEntries
    /\ c_list_last(mem, list1) = call.what

\* C6: link/unlink round trip.  When a call links n (before or after any
\* anchor) and the next call unlinks n, the ring has the member sequence it
\* had before the link and every node other than n has the next/prev it had
\* before the link; n is self-referential exactly when the unlinking call
\* was c_list_unlink_init.
C6_RoundTrip ==
    \A m0 \in undo :
        /\ c_list_for_each(mem, list1) = c_list_for_each(m0, list1)
        /\ \A x \in Nodes \ {call.what} : mem[x] = m0[x]
        /\ (mem[call.what] = C_LIST_INIT(call.what)) <=> (call.op = "c_list_unlink_init")

\* C6 witness: n was linked next to an entry of a ring of two entries and
\* then unlinked with c_list_unlink.
C6_Witness ==
    /\ undo # {}
    /\ call.op = "c_list_unlink"
    /\ Len(c_list_for_each(mem, list1)) = 2
    /\ pre[call.what].next \in Entries
    /\ pre[pre[call.what].next].prev = call.what

\* C7: c_list_unlink(what) does not modify what.  what.next and what.prev
\* keep their values, so c_list_is_linked(what) is still true after what
\* was unlinked from its ring; the only pointers that change are the next of
\* what's previous node and the prev of what's next node.
C7_UnlinkLeavesWhat ==
    call.op = "c_list_unlink"
    => /\ mem[call.what] = pre[call.what]
       /\ call.what \in Elems(c_list_for_each(pre, list1))
            => /\ c_list_is_linked(mem, call.what)
               /\ call.what \notin Elems(c_list_for_each(mem, list1))
       /\ \A x \in Nodes :
            /\ mem[x].next # pre[x].next => x = pre[call.what].prev
            /\ mem[x].prev # pre[x].prev => x = pre[call.what].next

\* C7 witness: the middle one of three entries was unlinked and still
\* points at its former neighbours.
C7_Witness ==
    /\ call.op = "c_list_unlink"
    /\ Len(c_list_for_each(pre, list1)) = 3
    /\ call.what = c_list_for_each(pre, list1)[2]
    /\ mem[call.what].next = c_list_for_each(pre, list1)[3]
    /\ mem[mem[call.what].next].prev # call.what

\* C8: after c_list_unlink_init(n) on an initialized n, linked or not, n is
\* self-referential, c_list_is_linked(n) is false, c_list_is_empty(n) is
\* true, n is not reachable from the head, and linking n again gives a
\* consistent ring that contains n.
C8_UnlinkInitResets ==
    call.op = "c_list_unlink_init"
    => /\ mem[call.what] = C_LIST_INIT(call.what)
       /\ ~c_list_is_linked(mem, call.what)
       /\ c_list_is_empty(mem, call.what)
       /\ call.what \notin Ring(mem, list1)
       /\ RingConsistent(c_list_link_before(mem, list1, call.what), list1)
       /\ call.what \in Ring(c_list_link_before(mem, list1, call.what), list1)

\* C8 witness: c_list_unlink_init removed an entry from a ring that keeps
\* other entries.
C8_Witness ==
    /\ call.op = "c_list_unlink_init"
    /\ call.what \in Elems(c_list_for_each(pre, list1))
    /\ c_list_is_linked(pre, call.what)
    /\ Len(c_list_for_each(mem, list1)) = NumEntries - 1

\* C9: removal-safe iteration.  Over a ring of entries linked with
\* c_list_link_tail, c_list_for_each_safe with a body that unlinks the
\* current entry never runs the body with the head as current entry, runs
\* it on the entries in link order without repetition, terminates, and at
\* the end has run it once per entry and left the list empty.
C9_Safety ==
    /\ pc = "body" => iter # list1
    /\ Len(visits) <= Len(order)
    /\ visits = SubSeq(order, 1, Len(visits))
    /\ pc = "done" => /\ visits = order
                      /\ c_list_is_empty(mem, list1)

C9_SafeIteration == []C9_Safety /\ ((pc = "test") ~> (pc = "done"))

\* C9 witness: the loop is over after unlinking every entry, the last one
\* with c_list_unlink_init and an earlier one with c_list_unlink.
C9_Witness ==
    /\ pc = "done"
    /\ Len(visits) = NumEntries
    /\ call.op = "c_list_unlink_init"
    /\ c_list_is_linked(mem, visits[1])

\* C10: emptiness tracks membership.  c_list_is_empty(head) is true exactly
\* when no entry is linked and not yet unlinked, and then the head is
\* self-referential again.
C10_EmptyIffNoMembers ==
    /\ c_list_is_empty(mem, list1) <=> (Owned(list1) = {})
    /\ Owned(list1) = {} => mem[list1] = C_LIST_INIT(list1)

\* C10 witness: of two entries one was unlinked, leaving the list
\* non-empty, and the state where the last one is unlinked as well.
C10_Witness ==
    /\ call.op \in UnlinkOps
    /\ Len(c_list_for_each(pre, list1)) = 1
    /\ call.what = c_list_for_each(pre, list1)[1]
    /\ Owned(list1) = {}
    /\ c_list_is_empty(mem, list1)
    /\ \E e \in Entries \ {call.what} : mem[e].next = call.what

\* C11: c_list_first(head) and c_list_last(head) never return the head.
\* They return NULL exactly when c_list_is_empty(head), and otherwise
\* head.next resp. head.prev, which is an entry.  For a NULL head
\* c_list_is_empty is true and both return NULL.
C11_FirstLastNeverHead ==
    /\ \A list \in {NULL, list1} :
        /\ (c_list_first(mem, list) = NULL) <=> c_list_is_empty(mem, list)
        /\ (c_list_last(mem, list) = NULL) <=> c_list_is_empty(mem, list)
        /\ c_list_first(mem, list) \notin Heads
        /\ c_list_last(mem, list) \notin Heads
        /\ ~c_list_is_empty(mem, list)
            => /\ c_list_first(mem, list) = mem[list].next
               /\ c_list_last(mem, list) = mem[list].prev
               /\ c_list_first(mem, list) \in Entries
               /\ c_list_last(mem, list) \in Entries
    /\ c_list_is_empty(mem, NULL)
    /\ c_list_first(mem, NULL) = NULL
    /\ c_list_last(mem, NULL) = NULL

\* C11 witness: the list was emptied by an unlink call, so that head.next
\* is the head while c_list_first returns NULL.
C11_Witness ==
    /\ call.op \in UnlinkOps
    /\ call.what \in Elems(c_list_for_each(pre, list1))
    /\ mem[list1].next = list1
    /\ c_list_first(mem, list1) = NULL

\* C14: a Link freshly initialized with C_LIST_INIT is self-referential,
\* c_list_is_linked is false for it and c_list_is_empty is true with it as
\* head.  (Before the first call every node is freshly initialized.)
C14_FreshIsUnlinked ==
    call = NoCall
    => \A x \in Nodes :
        /\ mem[x].next = x /\ mem[x].prev = x
        /\ ~c_list_is_linked(mem, x)
        /\ c_list_is_empty(mem, x)

\* C14 witness: the state right after the initializers, before any call.
C14_Witness ==
    /\ call = NoCall
    /\ mem = [x \in Nodes |-> C_LIST_INIT(x)]
    /\ c_list_is_empty(mem, list1)

\* C15: c_list_unlink on a self-referential node has no effect: the node
\* stays self-referential and no other node's next/prev changes.
C15_UnlinkOfUnlinkedIsNoop ==
    (call.op = "c_list_unlink" /\ pre[call.what] = C_LIST_INIT(call.what))
    => mem = pre

\* C15 witness: c_list_unlink was called on a self-referential entry while
\* the list holds other entries.
C15_Witness ==
    /\ call.op = "c_list_unlink"
    /\ pre[call.what] = C_LIST_INIT(call.what)
    /\ mem[call.what] = C_LIST_INIT(call.what)
    /\ Len(c_list_for_each(mem, list1)) = NumEntries - 1

\* C17: the is_linked guard of c_list_unlink_init is not needed for
\* correctness.  Every c_list_unlink_init call leaves the memory that an
\* unconditional c_list_unlink followed by the re-initialization leaves, and
\* a second c_list_unlink_init on the same node changes nothing.
C17_GuardNotNeeded ==
    call.op = "c_list_unlink_init"
    => /\ mem = [c_list_unlink(pre, call.what) EXCEPT ![call.what] = C_LIST_INIT(call.what)]
       /\ c_list_unlink_init(mem, call.what) = mem
       /\ \A n \in Entries :
            MayUnlink(n)
            => c_list_unlink_init(mem, n)
                 = [c_list_unlink(mem, n) EXCEPT ![n] = C_LIST_INIT(n)]

\* C17 witness: c_list_unlink_init took the guarded branch on the middle one
\* of three entries.
C17_Witness ==
    /\ call.op = "c_list_unlink_init"
    /\ Len(c_list_for_each(pre, list1)) = 3
    /\ call.what = c_list_for_each(pre, list1)[2]
    /\ c_list_is_linked(pre, call.what)
    /\ Len(c_list_for_each(mem, list1)) = 2

\* C18: backward traversal mirrors forward traversal.  The walk from
\* c_list_loop_last via c_list_loop_prev visits the entries of the forward
\* walk in reverse order; in an empty ring c_list_loop_first and
\* c_list_loop_last are the head; c_list_loop_next of the last entry and
\* c_list_loop_prev of the first entry are the head.
C18_BackwardMirrorsForward ==
    /\ backward(mem, list1) = Reverse(c_list_for_each(mem, list1))
    /\ Elems(backward(mem, list1)) = Owned(list1)
    /\ c_list_is_empty(mem, list1)
        => /\ c_list_loop_first(mem, list1) = list1
           /\ c_list_loop_last(mem, list1) = list1
    /\ ~c_list_is_empty(mem, list1)
        => /\ c_list_loop_next(mem, c_list_loop_last(mem, list1)) = list1
           /\ c_list_loop_prev(mem, c_list_loop_first(mem, list1)) = list1

\* C18 witness: a ring holding every entry, built with an insertion in
\* front of an entry.
C18_Witness ==
    /\ call.op = "c_list_link_before"
    /\ call.where \in Entries
    /\ Len(backward(mem, list1)) = NumEntries
    /\ backward(mem, list1)[1] = c_list_for_each(mem, list1)[NumEntries]

\* C12: forward iteration.  c_list_for_each over any ring built by calls
\* that keep the preconditions never runs its body with the head, terminates,
\* has then visited every linked entry exactly once (none on an empty list),
\* and a second run directly after the first visits the same sequence.
C12_Safety ==
    /\ pc = "each_body" => iter # list1
    /\ pc = "each_done"
        => /\ Elems(visits) = Owned(list1)
           /\ Len(visits) = Cardinality(Owned(list1))
           /\ c_list_is_empty(mem, list1) => visits = <<>>
           /\ runs # <<>> => visits = runs[1]

C12_ForwardIteration == []C12_Safety /\ ((pc = "each_test") ~> (pc = "each_done"))

\* C12 witness: the second loop over a ring of all entries, linked in an
\* order other than that of their addresses, is over.
C12_Witness ==
    /\ pc = "each_done"
    /\ runs # <<>>
    /\ Len(visits) = NumEntries
    /\ visits # [i \in 1..NumEntries |-> list2 + i]

\* C16: container-of recovery.  For a record at address r with the member at
\* offset o, c_list_entry(r + o, T, m) == r; c_list_entry(NULL, T, m) == NULL;
\* c_list_first_entry and c_list_last_entry return NULL on an empty or NULL
\* list.
C16_ContainerOf ==
    /\ ent.op = "c_list_entry" => ent.res = ent.rec
    /\ (ent.op \in {"c_list_first_entry", "c_list_last_entry"}
        /\ c_list_is_empty(mem, ent.what)) => ent.res = NULL

\* C16 witness: c_list_first_entry on the empty list with the member at the
\* highest offset returned NULL.
C16_Witness ==
    /\ ent.op = "c_list_first_entry"
    /\ ent.what = list1
    /\ ent.off = MaxOff
    /\ ent.res = NULL

\* C13 (as claimed): double-linking corrupts both rings.  When what is a
\* member of ring R1 and is linked into a different ring R2 without being
\* unlinked first, ring consistency is violated for R1's head and is also
\* violated for R2's head.
C13_DoubleLinkCorruptsBoth ==
    pc = "corrupt"
    => /\ ~RingConsistent(mem, owner[call.what])
       /\ ~RingConsistent(mem, RingOf(call.where))

\* C13 (amended): double-linking corrupts the ring that what was a member
\* of.  Ring consistency is violated for R1's head, while every node
\* reachable via next from R2's head, what among them, still satisfies it.
C13_DoubleLinkCorruptsOldRing ==
    pc = "corrupt"
    => /\ ~RingConsistent(mem, owner[call.what])
       /\ RingConsistent(mem, RingOf(call.where))
       /\ call.what \in Ring(mem, RingOf(call.where))

\* C13 witness: an entry with a neighbour entry in its ring was linked in
\* front of an entry of the other ring.
C13_Witness ==
    /\ pc = "corrupt"
    /\ call.where \in Entries
    /\ Cardinality(Owned(owner[call.what])) >= 2
    /\ mem[call.where].prev = call.what

\* The ring of head h is untouched by a step: every pointer of its nodes,
\* its member sequence and its emptiness.
RingUntouched(h) ==
    /\ \A x \in {h} \cup Owned(h) : mem'[x] = mem[x]
    /\ c_list_for_each(mem', h) = c_list_for_each(mem, h)
    /\ c_list_is_empty(mem', h) = c_list_is_empty(mem, h)

\* C19: locality of writes.  A link call changes at most where.prev,
\* what.next, what.prev and the next of where's previous node; c_list_unlink
\* changes at most the next of what.prev and the prev of what.next.  A call
\* that keeps the preconditions leaves the ring it does not work on
\* untouched.
C19_Step ==
    pc' = "idle"
    => /\ call'.op \in {"c_list_link_before", "c_list_link_after"}
            => /\ \A x \in Nodes :
                    /\ mem'[x].next # mem[x].next
                        => x \in {call'.what, mem[call'.where].prev}
                    /\ mem'[x].prev # mem[x].prev
                        => x \in {call'.what, call'.where}
               /\ \A h \in Heads \ {RingOf(call'.where)} : RingUntouched(h)
       /\ call'.op = "c_list_unlink"
            => /\ \A x \in Nodes :
                    /\ mem'[x].next # mem[x].next => x = mem[call'.what].prev
                    /\ mem'[x].prev # mem[x].prev => x = mem[call'.what].next
               /\ \A h \in Heads \ {owner[call'.what]} : RingUntouched(h)

====
